---------------------------- MODULE Spec2Model ----------------------------
(***************************************************************************)
(* Neon Drift Arena (src/main.py): the screen state machine of Game, the   *)
(* main loop Game.run, the event handler Game.handle_events and the        *)
(* simulation step Game.update_playing.                                    *)
(*                                                                         *)
(* Time is counted in integer milliseconds: Game.run computes dt from the  *)
(* integer dt_ms returned by clock.tick, and every timer constant of the   *)
(* program is a whole number of milliseconds (0.12 s = 120, 10.0 s =       *)
(* 10000).  Binary rounding of the float subtractions is not modelled.     *)
(*                                                                         *)
(* Positions and velocities are not modelled in the game: they are         *)
(* functions of the random spawn data and of the keyboard state.  What the *)
(* simulation step reads from them, the result of collides_with_player for *)
(* every enemy and orb, is drawn as an input of the step (the positions of *)
(* the list that overlap the player).  The particle list is kept as the    *)
(* longest life remaining in it.  The geometry of Enemy.__init__ and       *)
(* Enemy.update is modelled for one enemy on its own (SpecEnemy).          *)
(***************************************************************************)
EXTENDS Integers, Sequences, FiniteSets, TLC

VARIABLES
    state,                \* Game.state: "menu" | "playing" | "paused" | "gameover"
    pc,                   \* position in Game.run: "events" | "update" | "quit"
    running,              \* Game.run's local `running`
    player,               \* Game.player: [alive, dash_timer, dash_cooldown, invuln_timer]
    enemies,              \* Game.enemies: sequence of [id, speed]
    orbs,                 \* Game.orbs: sequence of [id, value]
    particles,            \* Game.particles: the longest remaining life, 0 = empty
    score,
    time_alive,
    combo,
    combo_timer,
    spawn_enemy_timer,
    spawn_orb_timer,
    difficulty_level,
    next_difficulty_time,
    best_score,
    shake_time,
    shake_strength,
    file,                 \* content of DATA_FILE: [kind, val]
    made,                 \* objects constructed in this run: [enemies, orbs]
    last,                 \* what the last update_playing call did (observation)
    sinceDash,            \* simulated ms since this player's last dash trigger, -1: none
    collected,            \* ids of the orbs collected in this run
    sincePick,            \* simulated ms since this run's last pickup, -1: none
    frame0,               \* the run variables as they were when the frame began
    enemy                 \* one Enemy object with its geometry (SpecEnemy)

runVars == <<player, enemies, orbs, particles, score, time_alive, combo,
             combo_timer, spawn_enemy_timer, spawn_orb_timer,
             difficulty_level, next_difficulty_time>>
gameVars == <<best_score, shake_time, shake_strength, file>>
histVars == <<made, last, sinceDash, collected, sincePick>>
vars == <<state, pc, running, runVars, gameVars, histVars, frame0, enemy>>

----------------------------------------------------------------------------
(* Bounds of the model *)

MaxTime == 300          \* Spec: ticks start while time_alive < MaxTime
MaxTimeDash == 250      \* SpecDash
MaxTimeCool == 1250     \* SpecCool
MaxTimeOrb == 4400      \* SpecOrb
MaxTimeLong == 56000    \* SpecLong
MaxTimeCap == 8400      \* SpecCap
MaxTimeShake == 400     \* SpecShake
MaxTimeSlow == 10100    \* SpecSlow
MaxUpdates == 3         \* SpecEnemy: updates of the enemy that is followed
MaxHit == 2             \* size of the largest overlap set drawn in one tick

(* Program constants, in ms and points *)

DashMs == 120
CooldownMs == 1000
InvulnMs == 180
ComboMs == 2000
LevelMs == 10000
LevelBonus == 20
OrbValue == 25
ComboStep == 5
RepelScore == 2
MaxEnemies == 70
MaxOrbs == 3
FirstEnemyMs == 600
FirstOrbMs == 2200
InitialEnemies == 3
MaxDtMs == 50
WIDTH == 960
HEIGHT == 600
Margin == 30

Max(a, b) == IF a >= b THEN a ELSE b
Min(a, b) == IF a <= b THEN a ELSE b

clamp(value, a, b) == Max(a, Min(b, value))

----------------------------------------------------------------------------
(* Persistence *)

NoFile == [kind |-> "absent", val |-> 0]
BadFile == [kind |-> "corrupt", val |-> 0]
GoodFile(n) == [kind |-> "json", val |-> n]

load_best_score(f) == IF f.kind = "json" THEN f.val ELSE 0

\* res: "ok" the dump succeeded; "noopen" open() raised; "partial" the dump
\* raised after open(..., "w") had truncated the file.
save_best_score(f, n, res) ==
    CASE res = "ok" -> GoodFile(n)
      [] res = "noopen" -> f
      [] OTHER -> BadFile

----------------------------------------------------------------------------
(* Timer *)

TimerStart(seconds) == Max(0, seconds)
TimerUpdate(time_left, dt) == Max(0, time_left - dt)
TimerActive(time_left) == time_left > 0

----------------------------------------------------------------------------
(* Player *)

NewPlayer == [alive |-> TRUE, dash_timer |-> 0, dash_cooldown |-> 0,
              invuln_timer |-> 0]

\* DashTriggered without the cooldown test of line 145
DashTriggeredNoCooldown(p, dash_pressed) ==
    dash_pressed /\ ~TimerActive(p.dash_timer)

DashTriggered(p, dash_pressed) ==
    dash_pressed /\ ~TimerActive(p.dash_timer) /\ ~TimerActive(p.dash_cooldown)

handle_input(p, dash_pressed) ==
    IF DashTriggered(p, dash_pressed)
    THEN [p EXCEPT !.dash_timer = TimerStart(DashMs),
                   !.dash_cooldown = TimerStart(CooldownMs),
                   !.invuln_timer = TimerStart(InvulnMs)]
    ELSE p

PlayerUpdate(p, dt) ==
    [p EXCEPT !.dash_timer = TimerUpdate(@, dt),
              !.dash_cooldown = TimerUpdate(@, dt),
              !.invuln_timer = TimerUpdate(@, dt)]

\* can_be_hit reading the dash timer (0.12 s) for the invulnerability timer
can_be_hit_dash(p) == ~TimerActive(p.dash_timer)

can_be_hit(p) == ~TimerActive(p.invuln_timer)

----------------------------------------------------------------------------
(* Enemy, EnergyOrb, Particle *)

\* sp = [base, grow]: the two random.uniform draws of Enemy.__init__, px/s.
\* The speed is kept in units of 1/10000 px/s.
Enemy(d, id, sp) == [id |-> id, speed |-> (sp.base + d * sp.grow) * 10000]

EnergyOrb(id) == [id |-> id, value |-> OrbValue]

\* enemy.speed *= 0.92
RepelSpeed(speed) == (speed * 92) \div 100

\* The geometry of one enemy.  Lengths are in units of 1/5000 px and the
\* direction is in fifths, so that pos += direction * speed * dt is exact
\* for a speed in px/s and dt in ms: (d / 5) * speed * (dt / 1000) px.
PxUnit == 5000

\* The unit vectors with components in fifths
Dirs == {d \in (-5..5) \X (-5..5) : d[1] * d[1] + d[2] * d[2] = 25}

\* direction.normalize() of lines 197-209: the normal component points
\* inward and the tangent one is within 0.6 / 0.4 of it
SideDirs(side) ==
    CASE side = "top" -> {d \in Dirs : d[2] >= 3}
      [] side = "bottom" -> {d \in Dirs : d[2] <= -3}
      [] side = "left" -> {d \in Dirs : d[1] >= 3}
      [] OTHER -> {d \in Dirs : d[1] <= -3}

\* Enemy.__init__: spawn_side, the randint along the edge (c, px), the
\* normalized direction, the radius (px) and the speed (px/s)
EnemyInit(side, c, d, radius, speed) ==
    LET pos == CASE side = "top" -> <<c, -Margin>>
                 [] side = "bottom" -> <<c, HEIGHT + Margin>>
                 [] side = "left" -> <<-Margin, c>>
                 [] OTHER -> <<WIDTH + Margin, c>>
    IN [side |-> side, x |-> pos[1] * PxUnit, y |-> pos[2] * PxUnit,
        dx |-> d[1], dy |-> d[2], radius |-> radius, speed |-> speed,
        n |-> 0, dt |-> 0, bx |-> FALSE, by |-> FALSE]

\* EnemyUpdate with the y bounce negating direction.x
EnemyUpdateCopied(e, dt) ==
    LET ix == e.x + e.dx * e.speed * dt
        iy == e.y + e.dy * e.speed * dt
        r == e.radius * PxUnit
        w == WIDTH * PxUnit - r
        h == HEIGHT * PxUnit - r
        bx == ix < r \/ ix > w
        by == iy < r \/ iy > h
        dx1 == IF bx THEN -e.dx ELSE e.dx
    IN [e EXCEPT !.x = IF ix < r THEN r ELSE IF ix > w THEN w ELSE ix,
                 !.y = IF iy < r THEN r ELSE IF iy > h THEN h ELSE iy,
                 !.dx = IF by THEN -dx1 ELSE dx1,
                 !.n = @ + 1, !.dt = dt, !.bx = bx, !.by = by]

\* Enemy.update, lines 220-237 (angle is cosmetic); n, dt, bx and by record
\* the number of updates and what the last one was given and did
EnemyUpdate(e, dt) ==
    LET ix == e.x + e.dx * e.speed * dt
        iy == e.y + e.dy * e.speed * dt
        r == e.radius * PxUnit
        w == WIDTH * PxUnit - r
        h == HEIGHT * PxUnit - r
        bx == ix < r \/ ix > w
        by == iy < r \/ iy > h
    IN [e EXCEPT !.x = IF ix < r THEN r ELSE IF ix > w THEN w ELSE ix,
                 !.y = IF iy < r THEN r ELSE IF iy > h THEN h ELSE iy,
                 !.dx = IF bx THEN -e.dx ELSE e.dx,
                 !.dy = IF by THEN -e.dy ELSE e.dy,
                 !.n = @ + 1, !.dt = dt, !.bx = bx, !.by = by]

\* The particle list is kept as the largest remaining life in it, in ms:
\* Particle.update subtracts dt from every life and update_playing keeps
\* the particles with life > 0, so the list is empty iff this is 0.
ParticlesUpdate(maxLife, dt) == Max(0, maxLife - dt)
Emit(maxLife, life) == Max(maxLife, life)

TrailLifeMs == 200

----------------------------------------------------------------------------
(* Game *)

Snap == [player |-> player, enemies |-> enemies, orbs |-> orbs,
         particles |-> particles, score |-> score, time_alive |-> time_alive,
         combo |-> combo, combo_timer |-> combo_timer,
         spawn_enemy_timer |-> spawn_enemy_timer,
         spawn_orb_timer |-> spawn_orb_timer,
         difficulty_level |-> difficulty_level,
         next_difficulty_time |-> next_difficulty_time,
         best_score |-> best_score, shake_time |-> shake_time,
         shake_strength |-> shake_strength]

NoCall == [dt |-> 0, dash |-> FALSE, dashed |-> FALSE, input |-> NewPlayer, levelled |-> FALSE,
           spawned |-> 0, touching |-> 0, picked |-> 0, overlap |-> 0, repelled |-> 0,
           lethal |-> FALSE, saves |-> 0, truncated |-> FALSE]

\* The values reset_run gives the run (sp: the speed draws of the 3 enemies).
FreshEnemies(sp) == [i \in 1..InitialEnemies |-> Enemy(1, i, sp[i])]

\* lines 320-341; g is the game as a record (see Game below)
reset_run(g, sp) ==
    [g EXCEPT !.player = NewPlayer,
              !.enemies = FreshEnemies(sp),
              !.orbs = <<>>,
              !.particles = 0,
              !.score = 0,
              !.time_alive = 0,
              !.combo = 0,
              !.combo_timer = 0,
              !.spawn_enemy_timer = TimerStart(FirstEnemyMs),
              !.spawn_orb_timer = TimerStart(FirstOrbMs),
              !.difficulty_level = 1,
              !.next_difficulty_time = LevelMs,
              !.made = [enemies |-> InitialEnemies, orbs |-> 0],
              !.last = NoCall,
              !.sinceDash = -1,
              !.collected = {},
              !.sincePick = -1]

\* add_shake on g, a record with fields shake_strength and shake_time
add_shake(g, strength, duration) ==
    [g EXCEPT !.shake_strength = Max(@, strength),
              !.shake_time = Max(@, duration)]

\* The game as one record, for the steps of update_playing.
Game == [state |-> state, player |-> player, enemies |-> enemies, orbs |-> orbs,
         particles |-> particles, score |-> score, time_alive |-> time_alive,
         combo |-> combo, combo_timer |-> combo_timer,
         spawn_enemy_timer |-> spawn_enemy_timer,
         spawn_orb_timer |-> spawn_orb_timer,
         difficulty_level |-> difficulty_level,
         next_difficulty_time |-> next_difficulty_time,
         best_score |-> best_score, shake_time |-> shake_time,
         shake_strength |-> shake_strength, file |-> file, made |-> made,
         last |-> last, sinceDash |-> sinceDash, collected |-> collected,
         sincePick |-> sincePick]

\* StepDifficulty without line 370 (the threshold is not moved)
StepDifficultyStuck(g, dt, life) ==
    LET t == g.time_alive + dt IN
    IF t >= g.next_difficulty_time
    THEN [g EXCEPT !.time_alive = t,
                   !.difficulty_level = @ + 1,
                   !.score = @ + LevelBonus,
                   !.particles = Emit(@, life),
                   !.last.levelled = TRUE]
    ELSE [g EXCEPT !.time_alive = t]

\* StepDifficulty with > for >= at line 368
StepDifficultyLate(g, dt, life) ==
    LET t == g.time_alive + dt IN
    IF t > g.next_difficulty_time
    THEN [g EXCEPT !.time_alive = t,
                   !.difficulty_level = @ + 1,
                   !.next_difficulty_time = @ + LevelMs,
                   !.score = @ + LevelBonus,
                   !.particles = Emit(@, life),
                   !.last.levelled = TRUE]
    ELSE [g EXCEPT !.time_alive = t]

\* lines 364-372: survival clock and difficulty
StepDifficulty(g, dt, life) ==
    LET t == g.time_alive + dt IN
    IF t >= g.next_difficulty_time
    THEN [g EXCEPT !.time_alive = t,
                   !.difficulty_level = @ + 1,
                   !.next_difficulty_time = @ + LevelMs,
                   !.score = @ + LevelBonus,
                   !.particles = Emit(@, life),
                   !.last.levelled = TRUE]
    ELSE [g EXCEPT !.time_alive = t]

\* StepCombo testing the timer before its update
StepComboLate(g, dt) ==
    LET ct == TimerUpdate(g.combo_timer, dt) IN
    [g EXCEPT !.combo_timer = ct,
              !.combo = IF ~TimerActive(g.combo_timer) THEN 0 ELSE @,
              !.sincePick = IF @ = -1 THEN -1 ELSE Min(@ + dt, ComboMs)]

\* lines 374-376: combo timer
StepCombo(g, dt) ==
    LET ct == TimerUpdate(g.combo_timer, dt) IN
    [g EXCEPT !.combo_timer = ct,
              !.combo = IF ~TimerActive(ct) THEN 0 ELSE @,
              !.sincePick = IF @ = -1 THEN -1 ELSE Min(@ + dt, ComboMs)]

\* lines 378-379: input, then the player's timers
StepPlayer(g, dt, dash_pressed) ==
    LET trig == DashTriggered(g.player, dash_pressed)
        p1 == handle_input(g.player, dash_pressed)
    IN [g EXCEPT !.player = PlayerUpdate(p1, dt),
                 !.last.dash = dash_pressed,
                 !.last.dashed = trig,
                 !.last.input = p1,
                 !.sinceDash = IF trig THEN dt
                               ELSE IF @ = -1 THEN -1
                               ELSE Min(@ + dt, CooldownMs)]

\* max(0.28, 1.0 - difficulty_level * 0.045 + random.uniform(-0.08, 0.12))
NextSpawnTime(d, jit) == Max(280, 1000 - d * 45 + jit)

\* StepSpawn restarting the expired orb timer although the list is full
StepSpawnRearm(g, dt, jit, orbt, sp) ==
    LET se == TimerUpdate(g.spawn_enemy_timer, dt)
        so == TimerUpdate(g.spawn_orb_timer, dt)
        g1 == IF ~TimerActive(se)
              THEN [g EXCEPT
                      !.enemies = Append(@, Enemy(g.difficulty_level,
                                                  g.made.enemies + 1, sp)),
                      !.made.enemies = @ + 1,
                      !.last.spawned = 1,
                      !.spawn_enemy_timer =
                          TimerStart(NextSpawnTime(g.difficulty_level, jit))]
              ELSE [g EXCEPT !.spawn_enemy_timer = se]
    IN IF ~TimerActive(so)
       THEN IF Len(g1.orbs) < MaxOrbs
            THEN [g1 EXCEPT !.orbs = Append(@, EnergyOrb(g.made.orbs + 1)),
                            !.made.orbs = @ + 1,
                            !.spawn_orb_timer = TimerStart(orbt)]
            ELSE [g1 EXCEPT !.spawn_orb_timer = TimerStart(orbt)]
       ELSE [g1 EXCEPT !.spawn_orb_timer = so]

\* lines 381-395: spawn timers, enemy spawn, orb spawn
StepSpawn(g, dt, jit, orbt, sp) ==
    LET se == TimerUpdate(g.spawn_enemy_timer, dt)
        so == TimerUpdate(g.spawn_orb_timer, dt)
        g1 == IF ~TimerActive(se)
              THEN [g EXCEPT
                      !.enemies = Append(@, Enemy(g.difficulty_level,
                                                  g.made.enemies + 1, sp)),
                      !.made.enemies = @ + 1,
                      !.last.spawned = 1,
                      !.spawn_enemy_timer =
                          TimerStart(NextSpawnTime(g.difficulty_level, jit))]
              ELSE [g EXCEPT !.spawn_enemy_timer = se]
    IN IF ~TimerActive(so) /\ Len(g1.orbs) < MaxOrbs
       THEN [g1 EXCEPT !.orbs = Append(@, EnergyOrb(g.made.orbs + 1)),
                       !.made.orbs = @ + 1,
                       !.spawn_orb_timer = TimerStart(orbt)]
       ELSE [g1 EXCEPT !.spawn_orb_timer = so]

\* lines 403-416: particle update and trail.  dashing: the dash timer was
\* active when handle_input set the velocity (780 px/s > 250); trail: the
\* velocity and trail_accum otherwise let the while loop emit.
StepParticles(g, dt, dashing, trail) ==
    LET pl == ParticlesUpdate(g.particles, dt) IN
    [g EXCEPT !.particles = IF (dashing /\ dt >= 18) \/ (trail /\ dt > 0)
                            THEN Emit(pl, TrailLifeMs) ELSE pl]

\* lines 420-429: one orb collected
Collect(g, orb, life) ==
    LET c == g.combo + 1
        combo_bonus == (c - 1) * ComboStep
    IN add_shake([g EXCEPT !.combo = c,
                           !.combo_timer = TimerStart(ComboMs),
                           !.score = @ + orb.value + combo_bonus,
                           !.particles = Emit(@, life),
                           !.collected = @ \cup {orb.id},
                           !.sincePick = 0,
                           !.last.picked = @ + 1],
                 4, 80)

RECURSIVE PickLoop(_, _, _, _, _)
PickLoop(g, pick, i, picked, life) ==
    IF i > Len(g.orbs)
    THEN <<g, picked>>
    ELSE IF i \in pick
         THEN PickLoop(Collect(g, g.orbs[i], life), pick, i + 1,
                       picked \cup {g.orbs[i].id}, life)
         ELSE PickLoop(g, pick, i + 1, picked, life)

\* RemovePicked dropping only the first picked orb
RemoveFirstPicked(os, picked) ==
    LET first == CHOOSE id \in picked : \A other \in picked : id <= other
    IN SelectSeq(os, LAMBDA o : o.id # first)

\* lines 431-432: the picked orbs leave the list
RemovePicked(os, picked) == SelectSeq(os, LAMBDA o : o.id \notin picked)

\* lines 418-432
StepPickup(g, pick, life) ==
    LET g1 == [g EXCEPT !.last.touching =
                            Cardinality(pick \cap (1..Len(g.orbs)))]
        r == PickLoop(g1, pick, 1, {}, life)
    IN
    IF r[2] # {} THEN [r[1] EXCEPT !.orbs = RemovePicked(@, r[2])] ELSE r[1]

\* int(dt * 6), dt in seconds
Passive(dt) == (dt * 6) \div 1000

\* lines 434-435
StepPassive(g, dt) == [g EXCEPT !.score = @ + Passive(dt)]

\* LethalHit without line 441 (the player is left alive)
LethalHitAlive(g, life, res) ==
    LET g1 == add_shake([g EXCEPT !.particles = Emit(@, life)], 10, 250)
        best == Max(g1.best_score, g1.score)
    IN [g1 EXCEPT !.state = "gameover",
                  !.best_score = best,
                  !.file = save_best_score(@, best, res),
                  !.last.saves = @ + 1,
                  !.last.lethal = TRUE]

\* LethalHit with a failed save leaving update_playing at line 445, before
\* the state is set (save_best_score without its try/except)
LethalHitRaise(g, life, res) ==
    LET g1 == add_shake([g EXCEPT !.player.alive = FALSE,
                                  !.particles = Emit(@, life)],
                        10, 250)
        best == Max(g1.best_score, g1.score)
    IN [g1 EXCEPT !.state = IF res = "ok" THEN "gameover" ELSE @,
                  !.best_score = best,
                  !.file = save_best_score(@, best, res),
                  !.last.saves = @ + 1,
                  !.last.lethal = TRUE]

\* LethalHit with best_score overwritten by the score (no max)
LethalHitOverwrite(g, life, res) ==
    LET g1 == add_shake([g EXCEPT !.player.alive = FALSE,
                                  !.particles = Emit(@, life)],
                        10, 250)
        best == g1.score
    IN [g1 EXCEPT !.state = "gameover",
                  !.best_score = best,
                  !.file = save_best_score(@, best, res),
                  !.last.saves = @ + 1,
                  !.last.lethal = TRUE]

\* lines 441-447: the lethal branch, up to the break
LethalHit(g, life, res) ==
    LET g1 == add_shake([g EXCEPT !.player.alive = FALSE,
                                  !.particles = Emit(@, life)],
                        10, 250)
        best == Max(g1.best_score, g1.score)
    IN [g1 EXCEPT !.state = "gameover",
                  !.best_score = best,
                  !.file = save_best_score(@, best, res),
                  !.last.saves = @ + 1,
                  !.last.lethal = TRUE]

\* RepelEnemy taking the 2 points instead of giving them
RepelEnemyPenalty(g, i) ==
    [g EXCEPT !.enemies[i].speed = RepelSpeed(@),
              !.score = @ - RepelScore,
              !.last.repelled = @ + 1]

\* lines 449-454: the invulnerable branch for enemy i
RepelEnemy(g, i) ==
    [g EXCEPT !.enemies[i].speed = RepelSpeed(@),
              !.score = @ + RepelScore,
              !.last.repelled = @ + 1]

\* CollideLoop leaving the loop after a repel too
RECURSIVE CollideLoopBreakAll(_, _, _, _, _)
CollideLoopBreakAll(g, hit, i, life, res) ==
    IF i > Len(g.enemies)
    THEN g
    ELSE IF i \in hit
         THEN IF can_be_hit(g.player)
              THEN LethalHit(g, life, res)
              ELSE RepelEnemy(g, i)
         ELSE CollideLoopBreakAll(g, hit, i + 1, life, res)

\* CollideLoop without the break of line 447
RECURSIVE CollideLoopNoBreak(_, _, _, _, _)
CollideLoopNoBreak(g, hit, i, life, res) ==
    IF i > Len(g.enemies)
    THEN g
    ELSE IF i \in hit
         THEN IF can_be_hit(g.player)
              THEN CollideLoopNoBreak(LethalHit(g, life, res), hit, i + 1,
                                      life, res)
              ELSE CollideLoopNoBreak(RepelEnemy(g, i), hit, i + 1, life, res)
         ELSE CollideLoopNoBreak(g, hit, i + 1, life, res)

\* lines 438-454: the loop over the enemies, with its break
RECURSIVE CollideLoop(_, _, _, _, _)
CollideLoop(g, hit, i, life, res) ==
    IF i > Len(g.enemies)
    THEN g
    ELSE IF i \in hit
         THEN IF can_be_hit(g.player)
              THEN LethalHit(g, life, res)
              ELSE CollideLoop(RepelEnemy(g, i), hit, i + 1, life, res)
         ELSE CollideLoop(g, hit, i + 1, life, res)

StepCollide(g, hit, life, res) ==
    CollideLoop([g EXCEPT !.last.overlap =
                              Cardinality(hit \cap (1..Len(g.enemies)))],
                hit, 1, life, res)

\* self.enemies[:70], the oldest kept
KeepOldest(es) == SubSeq(es, 1, MaxEnemies)

\* self.enemies[-70:]
KeepNewest(es) == SubSeq(es, Len(es) - MaxEnemies + 1, Len(es))

\* lines 456-458
StepCap(g) ==
    IF Len(g.enemies) > MaxEnemies
    THEN [g EXCEPT !.enemies = KeepNewest(@), !.last.truncated = TRUE]
    ELSE g

\* lines 460-464
StepShake(g, dt) ==
    IF g.shake_time > 0
    THEN LET st == Max(0, g.shake_time - dt) IN
         [g EXCEPT !.shake_time = st,
                   !.shake_strength = IF st = 0 THEN 0 ELSE @]
    ELSE g

\* The inputs of one update_playing call:
\*   dt     seconds passed to the call, in ms
\*   dash   a dash key is down
\*   trail  the keyboard-driven velocity lets the trail loop emit
\*   hit    positions of self.enemies that overlap the player at line 439
\*   pick   positions of self.orbs that overlap the player at line 421
\*   jit    random.uniform(-0.08, 0.12) of line 388, in ms
\*   orbt   random.uniform(2.0, 3.4) of line 395, in ms
\*   sp     the speed draws of an enemy constructed in this call
\*   life   the longest life drawn by a spawn_burst of this call, in ms
\*   res    the outcome of the file write of save_best_score
update_playing(g0, in) ==
    LET dt == in.dt
        g == [g0 EXCEPT !.last = [NoCall EXCEPT !.dt = dt]]
        dashing == TimerActive(g.player.dash_timer)
        g1 == StepDifficulty(g, dt, in.life)
        g2 == StepCombo(g1, dt)
        g3 == StepPlayer(g2, dt, in.dash)
        g4 == StepSpawn(g3, dt, in.jit, in.orbt, in.sp)
        g5 == StepParticles(g4, dt, dashing, in.trail)
        g6 == StepPickup(g5, in.pick, in.life)
        g7 == StepPassive(g6, dt)
        g8 == StepCollide(g7, in.hit, in.life, in.res)
        g9 == StepCap(g8)
    IN StepShake(g9, dt)

----------------------------------------------------------------------------
(* Game.handle_events, one event of the queue *)

Keys == {"RETURN", "ESCAPE", "p", "r", "other"}

\* The result of one KEYDOWN event: the game, and cont = FALSE when
\* handle_events returns False.
Go(g) == [g |-> g, cont |-> TRUE]

\* lines 623-628
MenuKey(g, key, sp) ==
    CASE key = "RETURN" -> Go([reset_run(g, sp) EXCEPT !.state = "playing"])
      [] key = "ESCAPE" -> [g |-> g, cont |-> FALSE]
      [] OTHER -> Go(g)

\* lines 630-636
PlayingKey(g, key, sp) ==
    CASE key = "p" -> Go([g EXCEPT !.state = "paused"])
      [] key = "r" -> Go(reset_run(g, sp))
      [] key = "ESCAPE" -> Go([g EXCEPT !.state = "menu"])
      [] OTHER -> Go(g)

\* PausedKey with the restart key resuming the paused run (no reset_run)
PausedKeyNoReset(g, key, sp) ==
    CASE key \in {"p", "RETURN", "r"} -> Go([g EXCEPT !.state = "playing"])
      [] key = "ESCAPE" -> Go([g EXCEPT !.state = "menu"])
      [] OTHER -> Go(g)

\* lines 638-645
PausedKey(g, key, sp) ==
    CASE key \in {"p", "RETURN"} -> Go([g EXCEPT !.state = "playing"])
      [] key = "r" -> Go([reset_run(g, sp) EXCEPT !.state = "playing"])
      [] key = "ESCAPE" -> Go([g EXCEPT !.state = "menu"])
      [] OTHER -> Go(g)

\* GameoverKey with the cancel key ending the program as it does in the menu
GameoverKeyQuit(g, key, sp) ==
    CASE key = "RETURN" -> Go([reset_run(g, sp) EXCEPT !.state = "playing"])
      [] key = "ESCAPE" -> [g |-> g, cont |-> FALSE]
      [] OTHER -> Go(g)

\* GameoverKey with the pause key also handled on the game-over screen
GameoverKeyPause(g, key, sp) ==
    CASE key = "RETURN" -> Go([reset_run(g, sp) EXCEPT !.state = "playing"])
      [] key = "ESCAPE" -> Go([g EXCEPT !.state = "menu"])
      [] key = "p" -> Go([g EXCEPT !.state = "paused"])
      [] OTHER -> Go(g)

\* lines 647-652
GameoverKey(g, key, sp) ==
    CASE key = "RETURN" -> Go([reset_run(g, sp) EXCEPT !.state = "playing"])
      [] key = "ESCAPE" -> Go([g EXCEPT !.state = "menu"])
      [] OTHER -> Go(g)

\* lines 622-652
on_keydown(g, key, sp) ==
    CASE g.state = "menu" -> MenuKey(g, key, sp)
      [] g.state = "playing" -> PlayingKey(g, key, sp)
      [] g.state = "paused" -> PausedKey(g, key, sp)
      [] g.state = "gameover" -> GameoverKey(g, key, sp)
      [] OTHER -> Go(g)

\* All the variables of the game take the fields of g.
Assign(g) ==
    /\ state' = g.state
    /\ player' = g.player
    /\ enemies' = g.enemies
    /\ orbs' = g.orbs
    /\ particles' = g.particles
    /\ score' = g.score
    /\ time_alive' = g.time_alive
    /\ combo' = g.combo
    /\ combo_timer' = g.combo_timer
    /\ spawn_enemy_timer' = g.spawn_enemy_timer
    /\ spawn_orb_timer' = g.spawn_orb_timer
    /\ difficulty_level' = g.difficulty_level
    /\ next_difficulty_time' = g.next_difficulty_time
    /\ best_score' = g.best_score
    /\ shake_time' = g.shake_time
    /\ shake_strength' = g.shake_strength
    /\ file' = g.file
    /\ made' = g.made
    /\ last' = g.last
    /\ sinceDash' = g.sinceDash
    /\ collected' = g.collected
    /\ sincePick' = g.sincePick

\* The random draws of the model
Speeds == {[base |-> 150, grow |-> 5]}
SpeedDraws == [1..InitialEnemies -> Speeds]
InitFiles == {NoFile, BadFile, GoodFile(30)}

\* lines 618-654: a KEYDOWN event is taken from the queue and handled
KeyDown(key) ==
    /\ pc = "events"
    /\ \E sp \in SpeedDraws :
          LET r == on_keydown(Game, key, sp) IN
          /\ Assign(r.g)
          /\ running' = r.cont
          /\ pc' = IF r.cont THEN "events" ELSE "update"
    /\ UNCHANGED <<frame0, enemy>>

\* lines 619-620: a QUIT event
Quit ==
    /\ pc = "events"
    /\ running' = FALSE
    /\ pc' = "update"
    /\ UNCHANGED <<state, runVars, gameVars, histVars, frame0, enemy>>

\* line 654: the queue is empty, handle_events returns True
EventsDone ==
    /\ pc = "events"
    /\ running' = TRUE
    /\ pc' = "update"
    /\ UNCHANGED <<state, runVars, gameVars, histVars, frame0, enemy>>

\* lines 658-660 come after the update in the model: the next iteration
\* begins, or the loop ends.
NextFrame ==
    /\ pc' = IF running THEN "events" ELSE "quit"
    /\ UNCHANGED <<running, enemy>>
    /\ frame0' = Snap'

\* ShouldUpdate with the pause screen simulated too
ShouldUpdatePaused(st) == st \in {"playing", "paused"}

\* line 664
ShouldUpdate(st) == st = "playing"

\* FrameDt without the clamp of line 660
FrameDtUnclamped(dt_ms) == dt_ms

\* lines 659-660
FrameDt(dt_ms) == clamp(dt_ms, 0, MaxDtMs)

\* lines 659-665 with state == "playing"; in.dt is dt_ms here
UpdatePlaying(in) ==
    /\ pc = "update"
    /\ ShouldUpdate(state)
    /\ in.hit \subseteq 1..(Len(enemies) + 1)
    /\ in.pick \subseteq 1..(Len(orbs) + 1)
    /\ Assign(update_playing(Game, [in EXCEPT !.dt = FrameDt(@)]))
    /\ NextFrame

\* lines 664-665 with another state: nothing but the draw
SkipUpdate ==
    /\ pc = "update"
    /\ ~ShouldUpdate(state)
    /\ UNCHANGED <<state, runVars, gameVars, histVars>>
    /\ NextFrame

----------------------------------------------------------------------------
(* Game.__init__ *)

InitGame ==
    \E f \in InitFiles, sp \in SpeedDraws :
      LET g0 == [state |-> "menu", player |-> NewPlayer, enemies |-> <<>>,
                 orbs |-> <<>>, particles |-> 0, score |-> 0, time_alive |-> 0,
                 combo |-> 0, combo_timer |-> 0, spawn_enemy_timer |-> 0,
                 spawn_orb_timer |-> 0, difficulty_level |-> 1,
                 next_difficulty_time |-> LevelMs,
                 best_score |-> load_best_score(f), shake_time |-> 0,
                 shake_strength |-> 0, file |-> f,
                 made |-> [enemies |-> 0, orbs |-> 0], last |-> NoCall,
                 sinceDash |-> -1, collected |-> {}, sincePick |-> -1]
          g == reset_run(g0, sp)
      IN /\ state = g.state
         /\ player = g.player
         /\ enemies = g.enemies
         /\ orbs = g.orbs
         /\ particles = g.particles
         /\ score = g.score
         /\ time_alive = g.time_alive
         /\ combo = g.combo
         /\ combo_timer = g.combo_timer
         /\ spawn_enemy_timer = g.spawn_enemy_timer
         /\ spawn_orb_timer = g.spawn_orb_timer
         /\ difficulty_level = g.difficulty_level
         /\ next_difficulty_time = g.next_difficulty_time
         /\ best_score = g.best_score
         /\ shake_time = g.shake_time
         /\ shake_strength = g.shake_strength
         /\ file = g.file
         /\ made = g.made
         /\ last = g.last
         /\ sinceDash = g.sinceDash
         /\ collected = g.collected
         /\ sincePick = g.sincePick
         /\ pc = "events"
         /\ running = TRUE
         /\ frame0 = [player |-> g.player, enemies |-> g.enemies,
                       orbs |-> g.orbs, particles |-> g.particles,
                       score |-> g.score, time_alive |-> g.time_alive,
                       combo |-> g.combo, combo_timer |-> g.combo_timer,
                       spawn_enemy_timer |-> g.spawn_enemy_timer,
                       spawn_orb_timer |-> g.spawn_orb_timer,
                       difficulty_level |-> g.difficulty_level,
                       next_difficulty_time |-> g.next_difficulty_time,
                       best_score |-> g.best_score,
                       shake_time |-> g.shake_time,
                       shake_strength |-> g.shake_strength]

----------------------------------------------------------------------------
(* Specifications.  Each draws the inputs of a tick from its own sets. *)

\* The enemy that is followed is left as constructed outside SpecEnemy.
Init == InitGame /\ enemy = EnemyInit("top", 480, <<0, 5>>, 10, 150)

Subsets(n) == {h \in SUBSET (1..MaxHit) : Cardinality(h) <= n}

\* The first k entities of the list overlap the player, k <= n
Prefixes(n) == {1..k : k \in 0..n}

Inputs(Dts, Dashes, Trails, Hits, Picks, Jits, Orbts, Lives, Ress) ==
    [dt : Dts, dash : Dashes, trail : Trails, hit : Hits, pick : Picks,
     jit : Jits, orbt : Orbts, sp : Speeds, life : Lives, res : Ress]

\* Spec: every key, short runs, dash and collisions
Tick ==
    /\ time_alive < MaxTime
    /\ \E in \in Inputs({50, 80}, BOOLEAN, {FALSE}, Prefixes(MaxHit), {{}},
                         {-80}, {2000}, {300}, {"ok"}) :
          UpdatePlaying(in)

Next ==
    \/ \E key \in Keys : KeyDown(key)
    \/ Quit
    \/ EventsDone
    \/ Tick
    \/ SkipUpdate

Spec == Init /\ [][Next]_vars

\* SpecDash: one key, finer time steps, the invulnerability window
InitDash == Init /\ file = NoFile

TickDash ==
    /\ time_alive < MaxTimeDash
    /\ \E in \in Inputs({30, 50}, BOOLEAN, {FALSE}, Subsets(1), {{}},
                         {-80}, {2000}, {300}, {"ok"}) :
          UpdatePlaying(in)

NextDash ==
    \/ KeyDown("RETURN")
    \/ EventsDone
    \/ TickDash
    \/ SkipUpdate

SpecDash == InitDash /\ [][NextDash]_vars

\* SpecCool: runs that outlast the dash cooldown; pause and restart
TickCool ==
    /\ time_alive < MaxTimeCool
    /\ \E in \in Inputs({0, 50}, BOOLEAN, {FALSE}, {{}}, {{}},
                         {-80}, {2000}, {300}, {"ok"}) :
          UpdatePlaying(in)

NextCool ==
    \/ \E key \in {"RETURN", "p", "r"} : KeyDown(key)
    \/ EventsDone
    \/ TickCool
    \/ SkipUpdate

SpecCool == InitDash /\ [][NextCool]_vars

\* SpecOrb: runs long enough for two orbs; pickups, no enemy contact
TickOrb ==
    /\ time_alive < MaxTimeOrb
    /\ \E in \in Inputs({50}, {FALSE}, {FALSE}, {{}}, Subsets(MaxHit),
                         {-80}, {2000}, {300}, {"ok"}) :
          UpdatePlaying(in)

NextOrb ==
    \/ KeyDown("RETURN")
    \/ EventsDone
    \/ TickOrb
    \/ SkipUpdate

SpecOrb == InitDash /\ [][NextOrb]_vars

\* SpecLong: runs long enough for the enemy cap and the difficulty steps
TickLong ==
    /\ time_alive < MaxTimeLong
    /\ \E in \in Inputs({50}, {FALSE}, {FALSE}, Subsets(1), {{}},
                         {-80}, {2000}, {300}, {"ok"}) :
          UpdatePlaying(in)

NextLong ==
    \/ KeyDown("RETURN")
    \/ EventsDone
    \/ TickLong
    \/ SkipUpdate

SpecLong == InitDash /\ [][NextLong]_vars

\* SpecSave: every save file at the start and every outcome of a save
SaveInputs ==
    Inputs({50}, BOOLEAN, {FALSE}, Prefixes(1), {{}},
           {-80}, {2000}, {300}, {"ok", "noopen", "partial"})

TickSave ==
    /\ time_alive < MaxTime
    /\ \E in \in SaveInputs : UpdatePlaying(in)

NextSave ==
    \/ KeyDown("RETURN")
    \/ EventsDone
    \/ TickSave
    \/ SkipUpdate

SpecSave == Init /\ [][NextSave]_vars

\* SpecEnemy: one enemy followed from its construction through its first
\* updates; the game around it is left in the menu
EnemyDraws ==
    {EnemyInit(side, c, d, radius, speed) :
        side \in {"top", "bottom", "left", "right"}, c \in {0, 300, 600},
        d \in Dirs, radius \in {10, 22}, speed \in {150, 229}}

InitEnemy ==
    /\ InitGame /\ file = NoFile
    /\ enemy \in {e \in EnemyDraws : <<e.dx, e.dy>> \in SideDirs(e.side)}

\* lines 397-398 for the enemy that is followed
UpdateEnemy(dt) ==
    /\ enemy.n < MaxUpdates
    /\ enemy' = EnemyUpdate(enemy, dt)
    /\ UNCHANGED <<state, pc, running, runVars, gameVars, histVars, frame0>>

NextEnemy == \E dt \in {0, 25, 50} : UpdateEnemy(dt)

SpecEnemy == InitEnemy /\ [][NextEnemy]_vars

\* SpecShake: one run is started from the menu and played; the main loop
\* keeps executing frames on every screen but playing, where the run may
\* stop at any tick (run, lines 657-667: each iteration handles the events
\* and then updates or skips the update)
TickShake ==
    /\ time_alive < MaxTimeShake
    /\ \E in \in Inputs({30, 50}, BOOLEAN, {FALSE}, Prefixes(1), {{}},
                         {-80}, {2000}, {300}, {"ok"}) :
          UpdatePlaying(in)

StartKey == state = "menu" /\ KeyDown("RETURN")

NextShake ==
    \/ StartKey
    \/ EventsDone
    \/ TickShake
    \/ SkipUpdate

SpecShake ==
    /\ InitDash /\ [][NextShake]_vars
    /\ WF_vars(EventsDone) /\ WF_vars(SkipUpdate)

\* SpecSlow: frames of 50 ms and frames that took 200 ms, through the first
\* level-up.  The dash key and an enemy in contact are drawn in the first
\* 0.2 s of a run, an orb in contact up to 2.4 s, nothing afterwards.
SlowInputs(t) ==
    IF t < 200
    THEN Inputs({50, 200}, BOOLEAN, {FALSE}, Prefixes(1), {{}},
                {-80}, {2000}, {300}, {"ok"})
    ELSE Inputs({50, 200}, {FALSE}, {FALSE}, {{}},
                IF t < 2400 THEN Prefixes(1) ELSE {{}},
                {-80}, {2000}, {300}, {"ok"})

TickSlow ==
    /\ time_alive < MaxTimeSlow
    /\ \E in \in SlowInputs(time_alive) : UpdatePlaying(in)

NextSlow ==
    \/ KeyDown("RETURN")
    \/ EventsDone
    \/ TickSlow
    \/ SkipUpdate

SpecSlow == InitDash /\ [][NextSlow]_vars

\* SpecCap: runs long enough for the orb list to fill and the orb timer to
\* expire on the full list; the first orb of the list may be picked
TickCap ==
    /\ time_alive < MaxTimeCap
    /\ \E in \in Inputs({50}, {FALSE}, {FALSE}, {{}}, Prefixes(1),
                         {-80}, {2000}, {300}, {"ok"}) :
          UpdatePlaying(in)

NextCap ==
    \/ KeyDown("RETURN")
    \/ EventsDone
    \/ TickCap
    \/ SkipUpdate

SpecCap == InitDash /\ [][NextCap]_vars

----------------------------------------------------------------------------
(* Properties *)

\* A step taken from such a state is an update_playing call.
AtTick == pc = "update" /\ state = "playing"

SaveResults == {"ok", "noopen", "partial"}

SevenTransitions ==
    {<<"menu", "playing">>, <<"playing", "paused">>, <<"playing", "gameover">>,
     <<"paused", "playing">>, <<"paused", "menu">>, <<"gameover", "playing">>,
     <<"gameover", "menu">>}

\* C1 as stated: every change of the screen state is one of the seven
\* transitions menu->playing, playing->paused, playing->gameover,
\* paused->playing, paused->menu, gameover->playing, gameover->menu.
C1_SevenOnly == [][state' # state => <<state, state'>> \in SevenTransitions]_vars

\* C1, amended: every change of the screen state by a key event or a tick is
\* one of the seven transitions or playing->menu (the cancel key).
C1_Transitions ==
    [][state' # state =>
         <<state, state'>> \in SevenTransitions \cup {<<"playing", "menu">>}]_vars

\* The menu was reached by the cancel key from a run that had started.
C1_Witness == state = "menu" /\ player.alive /\ time_alive > 0

\* The game is as reset_run leaves it.
IsFresh == \E sp \in SpeedDraws : reset_run(Game, sp) = Game

\* C2 as stated: a frame whose state after event handling is menu, paused
\* or gameover leaves the run variables, best_score and the shake fields as
\* they were when the frame began.
C2_FrameUnchanged == (pc = "update" /\ state # "playing") => Snap = frame0

\* C2, amended: in a frame whose state after event handling is menu, paused or
\* gameover the update stage changes nothing; over the whole frame best_score
\* and the shake fields are unchanged, and the run variables are unchanged
\* unless a key event of the frame called reset_run, and then they are those
\* of a fresh run.
C2_StaticFrame ==
    [][(pc = "update" /\ state # "playing") =>
         /\ UNCHANGED <<state, runVars, gameVars>>
         /\ best_score = frame0.best_score
         /\ shake_time = frame0.shake_time
         /\ shake_strength = frame0.shake_strength
         /\ Snap = frame0 \/ IsFresh]_vars

\* A frame that ends paused after the restart key restarted a run under way.
C2_Witness ==
    /\ pc = "update" /\ state = "paused"
    /\ IsFresh /\ frame0.time_alive > 0

\* C3: a tick in which an enemy overlaps a player that can be hit ends in
\* gameover with the player dead, best_score the larger of its old value and
\* the score, and one save of best_score; no enemy is repelled and no second
\* enemy is processed.
C3_Lethal ==
    [][(AtTick /\ last'.overlap > 0 /\ can_be_hit(player')) =>
         /\ state' = "gameover"
         /\ ~player'.alive
         /\ best_score' = Max(best_score, score')
         /\ last'.saves = 1
         /\ \E r \in SaveResults :
               file' = save_best_score(file, best_score', r)
         /\ last'.repelled = 0
         /\ \A i \in 1..Len(enemies') :
               \E j \in 1..Len(enemies) : enemies'[i] = enemies[j]]_vars

\* Two enemies overlapped a player that could be hit, and the score of the
\* run was below the old best score.
C3_Witness ==
    /\ state = "gameover" /\ last.lethal /\ last.overlap = 2
    /\ best_score > score

Dashing(p) == [p EXCEPT !.dash_timer = DashMs, !.dash_cooldown = CooldownMs,
                        !.invuln_timer = InvulnMs]

\* C5: with the dash key down and neither dash_timer nor dash_cooldown active,
\* handle_input leaves the three timers at 0.12 s, 1.0 s and 0.18 s; while less
\* than 1.0 s has passed since a trigger the dash key changes no timer; two
\* consecutive triggers are at least 1.0 s of simulated time apart.
C5_Cooldown ==
    [][AtTick =>
         /\ (last'.dash /\ ~TimerActive(player.dash_timer)
                        /\ ~TimerActive(player.dash_cooldown)) =>
               (last'.dashed /\ last'.input = Dashing(player)
                             /\ TimerActive(last'.input.dash_timer)
                             /\ TimerActive(last'.input.dash_cooldown)
                             /\ TimerActive(last'.input.invuln_timer))
         /\ (sinceDash # -1 /\ sinceDash < CooldownMs) =>
               (~last'.dashed /\ last'.input = player)
         /\ last'.dashed => (sinceDash = -1 \/ sinceDash >= CooldownMs)]_vars

\* The dash key was down 0.95 s after a trigger and nothing was restarted.
C5_Witness ==
    /\ last.dash /\ ~last.dashed
    /\ sinceDash = 950 /\ player.dash_cooldown = 50

\* C6: the enemy list never holds more than 70 enemies, and it holds the
\* most recently constructed ones in the order of their construction.
C6_EnemyCap ==
    /\ Len(enemies) <= MaxEnemies
    /\ \A i \in 1..Len(enemies) :
          enemies[i].id = made.enemies - Len(enemies) + i

\* The tick that ended a run also truncated the list.
C6_Witness ==
    /\ last.truncated /\ last.lethal
    /\ Len(enemies) = MaxEnemies /\ made.enemies > MaxEnemies + 1

OrbIds(os) == {os[i].id : i \in 1..Len(os)}

\* The combo when the pickup loop begins, for a tick of dt ms
ComboBefore(dt) ==
    IF TimerActive(TimerUpdate(combo_timer, dt)) THEN combo ELSE 0

\* orb.value + (combo - 1) * 5 summed over n pickups that begin at combo c0
PickGain(c0, n) == n * OrbValue + ComboStep * (n * c0 + (n * (n - 1)) \div 2)

\* What the call described by l adds to the score, the combo beginning at c0
ScoreGain(l, c0) ==
    (IF l.levelled THEN LevelBonus ELSE 0) + PickGain(c0, l.picked)
      + Passive(l.dt) + RepelScore * l.repelled

\* C7: every orb that overlaps the player at the pickup step leaves the list
\* in that tick and no orb is collected twice; each pickup adds 1 to the
\* combo, restarts the combo timer at 2.0 s and adds
\* orb.value + (combo - 1) * 5 to the score.
C7_Pickup ==
    [][AtTick =>
         LET n == last'.touching
             c0 == ComboBefore(last'.dt)
         IN /\ last'.picked = n
            /\ Cardinality(collected') = Cardinality(collected) + n
            /\ collected' \cap OrbIds(orbs') = {}
            /\ Len(orbs') = Len(orbs) + (made'.orbs - made.orbs) - n
            /\ combo' = c0 + n
            /\ n > 0 => combo_timer' = ComboMs
            /\ score' = score + ScoreGain(last', c0)]_vars

\* Two orbs were collected in one tick, for 25 and 30 points.
C7_Witness == last.picked = 2 /\ combo = 2 /\ score = 55

\* C8: a tick in which time_alive reaches next_difficulty_time adds 1 to
\* difficulty_level, 10 s to next_difficulty_time (10 s -> 20 s the first
\* time) and 20 to the score; any other tick leaves both unchanged, and
\* difficulty_level decreases only when reset_run starts a new run.
C8_Difficulty ==
    [][/\ AtTick =>
            /\ time_alive' = time_alive + last'.dt
            /\ last'.levelled <=> (time_alive' >= next_difficulty_time)
            /\ score' = score + ScoreGain(last', ComboBefore(last'.dt))
            /\ IF time_alive' >= next_difficulty_time
               THEN /\ difficulty_level' = difficulty_level + 1
                    /\ next_difficulty_time' = next_difficulty_time + LevelMs
                    /\ difficulty_level = 1 =>
                          (next_difficulty_time = 10000
                             /\ next_difficulty_time' = 20000)
               ELSE UNCHANGED <<difficulty_level, next_difficulty_time>>
       /\ difficulty_level' < difficulty_level => (pc = "events" /\ IsFresh')
      ]_vars

\* The first crossing, at exactly 10.0 s.
C8_Witness ==
    /\ last.levelled /\ time_alive = LevelMs
    /\ difficulty_level = 2 /\ next_difficulty_time = 20000 /\ score = 20

\* C9: best_score never decreases; it changes only in a tick in which a
\* lethal collision moves the state from playing to gameover, and then it
\* is the score of that run; in gameover best_score >= score.
C9_BestScore ==
    [][/\ best_score' >= best_score
       /\ best_score' # best_score =>
            (AtTick /\ state' = "gameover" /\ last'.lethal
                    /\ best_score' = score' /\ score' > best_score)
       /\ state' = "gameover" => best_score' >= score']_vars

\* A run ended with a new best score.
C9_Witness ==
    /\ state = "gameover" /\ last.lethal /\ score > 0
    /\ best_score = score /\ file = GoodFile(score)

\* C10: the score is never negative and a tick never lowers it; only
\* reset_run lowers it, to 0.
C10_Score ==
    [][/\ score >= 0 /\ score' >= 0
       /\ AtTick => score' >= score
       /\ score' < score => (pc = "events" /\ score' = 0 /\ IsFresh')]_vars

\* The restart key took a run's score back to 0.
C10_Witness ==
    /\ pc = "events" /\ state = "playing"
    /\ frame0.score > 0 /\ score = 0

OrbTimes == 2000..3400

\* C11: the orb list never holds more than 3 orbs; a tick spawns an orb
\* exactly when the orb-spawn timer is inactive after its update and the list
\* holds fewer than 3, and then one orb only; the timer is restarted only by
\* a spawn, so an expired timer stays expired while the list is full and the
\* next tick with fewer than 3 orbs spawns one.
C11_OrbCap ==
    [][/\ Len(orbs) <= MaxOrbs /\ Len(orbs') <= MaxOrbs
       /\ AtTick =>
            LET so == TimerUpdate(spawn_orb_timer, last'.dt)
                n == made'.orbs - made.orbs
            IN /\ n \in {0, 1}
               /\ n = 1 <=> (~TimerActive(so) /\ Len(orbs) < MaxOrbs)
               /\ n = 1 => /\ spawn_orb_timer' \in OrbTimes
                           /\ made'.orbs \in OrbIds(orbs') \cup collected'
               /\ n = 0 => spawn_orb_timer' = so
               /\ (~TimerActive(spawn_orb_timer) /\ Len(orbs) = MaxOrbs) =>
                     ~TimerActive(spawn_orb_timer')
       /\ ~AtTick => (orbs' = orbs \/ orbs' = <<>>)]_vars

\* The timer expired at 8.2 s on a full list; an orb was picked in the tick
\* that ended at 8.25 s and the fourth orb was spawned in the next tick.
C11_Witness ==
    /\ made.orbs = 4 /\ Len(orbs) = MaxOrbs /\ Cardinality(collected) = 1
    /\ time_alive = 8300 /\ TimerActive(spawn_orb_timer)

\* The run as the claim describes a fresh one
FreshRun ==
    /\ score = 0 /\ time_alive = 0 /\ combo = 0
    /\ difficulty_level = 1 /\ next_difficulty_time = 10000
    /\ player.alive
    /\ ~TimerActive(player.dash_timer) /\ ~TimerActive(player.dash_cooldown)
    /\ ~TimerActive(player.invuln_timer)
    /\ Len(enemies) = 3 /\ orbs = <<>> /\ particles = 0
    /\ spawn_enemy_timer = 600 /\ spawn_orb_timer = 2200

\* C12: the restart key in playing or paused and the confirm key in menu or
\* gameover leave the state playing with a fresh run; the pause key or the
\* confirm key in paused leaves the state playing and the run variables
\* unchanged, and no other step taken in paused changes them, so the run
\* resumes as it was paused.
C12_FreshOrResume ==
    [][/\ ((KeyDown("r") /\ state \in {"playing", "paused"})
           \/ (KeyDown("RETURN") /\ state \in {"menu", "gameover"})) =>
            (state' = "playing" /\ FreshRun')
       /\ ((KeyDown("p") \/ KeyDown("RETURN")) /\ state = "paused") =>
            (state' = "playing" /\ UNCHANGED runVars)
       /\ state = "paused" =>
            (UNCHANGED runVars \/ (KeyDown("r") /\ FreshRun'))]_vars

\* The restart key replaced a run under way, its player alive, by a fresh one.
C12_Witness ==
    /\ pc = "events" /\ state = "playing" /\ FreshRun
    /\ frame0.time_alive > 0 /\ frame0.player.alive
    /\ frame0.player.dash_cooldown > 0

\* C13: the cancel key in playing, paused or gameover sets the state to menu
\* and leaves the run as it is; in menu it makes handle_events return False,
\* no later event of the queue is handled, the frame is finished without a
\* simulation step and the main loop ends.  So after one cancel press the
\* state is menu, and after a second one the program ends.
C13_Cancel ==
    [][/\ (KeyDown("ESCAPE") /\ state # "menu") =>
            /\ state \in {"playing", "paused", "gameover"}
            /\ state' = "menu" /\ running' /\ pc' = "events"
            /\ UNCHANGED <<runVars, gameVars>>
       /\ (KeyDown("ESCAPE") /\ state = "menu") =>
            /\ ~running' /\ pc' = "update"
            /\ UNCHANGED <<state, runVars, gameVars>>
       /\ KeyDown("ESCAPE") => state' = "menu"
       /\ (pc = "update" /\ ~running) => pc' = "quit"
       /\ (pc = "update" /\ ~running /\ state = "menu") =>
            UNCHANGED <<state, runVars, gameVars>>]_vars

\* The program has ended in the menu that the cancel key reached from a run.
C13_Witness ==
    /\ pc = "quit" /\ ~running /\ state = "menu"
    /\ player.alive /\ time_alive > 0

\* What the game holds in memory: everything but the save file
InMemory(g) == [g EXCEPT !.file = NoFile]

\* C14: at a lethal collision the state in memory is the same whatever the
\* outcome of the save: gameover, the player dead, best_score the larger of
\* its old value and the score, and every field as the same call leaves it
\* with any other outcome of the save; update_playing runs to its end (the
\* shake decays).  At the start an absent or unparsable save file gives
\* best_score 0.
C14_BestEffort ==
    /\ (file.kind # "json" => best_score = 0)
    /\ (file.kind = "json" => best_score = file.val)
    /\ [][(AtTick /\ last'.lethal) =>
                  /\ \A in \in SaveInputs, r \in SaveResults :
                        (in.dash = last'.dash /\ in.hit = 1..last'.overlap) =>
                           InMemory(update_playing(Game, [in EXCEPT !.res = r]))
                             = InMemory(Game')
                  /\ state' = "gameover" /\ ~player'.alive
                  /\ best_score' = Max(best_score, score')
                  /\ shake_time' = Max(shake_time, 250) - last'.dt
                  /\ Len(enemies') = Len(enemies) + last'.spawned
                  /\ orbs' = orbs
                  /\ file' \in {GoodFile(best_score'), file, BadFile}]_vars

\* A run ended with a new best score and the save failed.
C14_Witness ==
    /\ state = "gameover" /\ last.lethal
    /\ score > 0 /\ best_score = score /\ file.kind # "json"

C16_Repel ==
    [][(AtTick /\ ~can_be_hit(player')) =>
         LET k == last'.overlap IN
         /\ state' = "playing" /\ player'.alive /\ ~last'.lethal
         /\ best_score' = best_score /\ file' = file /\ last'.saves = 0
         /\ last'.repelled = k
         /\ score' = score + 2 * k
                       + ScoreGain([last' EXCEPT !.repelled = 0],
                                   ComboBefore(last'.dt))
         /\ Len(enemies') = Len(enemies) + last'.spawned
         /\ \A i \in 1..Len(enemies) :
               /\ enemies'[i].id = enemies[i].id
               /\ IF i <= k THEN enemies'[i].speed < enemies[i].speed
                            ELSE enemies'[i].speed = enemies[i].speed]_vars

\* Two enemies were repelled in one tick, the first of them for the second
\* time.
C16_Witness ==
    /\ state = "playing" /\ last.repelled = 2 /\ last.overlap = 2
    /\ score = 6
    /\ \E sp \in Speeds :
          /\ enemies[1].speed = RepelSpeed(RepelSpeed(Enemy(1, 1, sp).speed))
          /\ enemies[2].speed = RepelSpeed(Enemy(1, 2, sp).speed)

\* C17 as stated: a repel leaves an enemy with 0.94 times its speed, and
\* nothing else in a tick changes the speed of an enemy of the list.
C17_SpeedLoss ==
    [][AtTick =>
         \A i \in 1..Len(enemies) :
            \A j \in 1..Len(enemies') :
               enemies'[j].id = enemies[i].id =>
                  enemies'[j].speed =
                     IF i <= last'.repelled
                     THEN (enemies[i].speed * 94) \div 100
                     ELSE enemies[i].speed]_vars

\* The coordinate and direction component Enemy.update leaves on one axis:
\* c the coordinate, d the component, v the speed, r the radius, m the
\* WIDTH or HEIGHT, all in the units of the enemy record
AxisAfter(c, d, v, dt, r, m) ==
    LET i == c + d * v * dt IN
    IF i < r THEN <<r, -d>>
    ELSE IF i > m - r THEN <<m - r, -d>>
    ELSE <<i, d>>

\* C18: after Enemy.update each axis has, independently of the other, the
\* boundary it crossed as coordinate and its direction component negated, or
\* the integrated coordinate and the component unchanged; the squared
\* magnitude of the direction is preserved and the enemy lies within
\* [radius, WIDTH - radius] x [radius, HEIGHT - radius].
C18_Bounce ==
    [][enemy'.n = enemy.n + 1 =>
         LET r == enemy.radius * PxUnit
             e == enemy
             f == enemy'
         IN /\ <<f.x, f.dx>> = AxisAfter(e.x, e.dx, e.speed, f.dt, r,
                                         960 * PxUnit)
            /\ <<f.y, f.dy>> = AxisAfter(e.y, e.dy, e.speed, f.dt, r,
                                         600 * PxUnit)
            /\ f.dx * f.dx + f.dy * f.dy = e.dx * e.dx + e.dy * e.dy
            /\ f.x >= r /\ f.x <= 960 * PxUnit - r
            /\ f.y >= r /\ f.y <= 600 * PxUnit - r
            /\ f.speed = e.speed /\ f.radius = e.radius]_vars

\* The last update bounced the enemy off the lower boundary only, while the
\* x coordinate was integrated inside the arena with a nonzero component.
C18_Witness ==
    /\ enemy.n = 2 /\ enemy.by /\ ~enemy.bx
    /\ enemy.y = (600 - enemy.radius) * PxUnit /\ enemy.dy < 0
    /\ enemy.dx # 0 /\ enemy.dt > 0

\* C19 as stated: once add_shake has set a positive shake_time, shake_time
\* reaches 0 while frames keep being executed, whatever the screen state; and
\* shake_strength is 0 whenever shake_time is 0.
C19_Transient ==
    /\ [](shake_time = 0 => shake_strength = 0)
    /\ (shake_time > 0 ~> shake_time = 0)

\* The direction component normal to the spawn edge points into the arena.
Inward(e) ==
    CASE e.side = "top" -> e.dy > 0
      [] e.side = "bottom" -> e.dy < 0
      [] e.side = "left" -> e.dx > 0
      [] OTHER -> e.dx < 0

\* C20 as stated: the constructor's direction points inward across the spawn
\* edge, and after the enemy's first update it still does.
C20_HeadsInward == enemy.n <= 1 => Inward(enemy)

\* No enemy of the list has been repelled since the run began at level 1.
NeverRepelled ==
    \A i \in 1..Len(enemies) :
       \E sp \in Speeds : enemies[i].speed = Enemy(1, enemies[i].id, sp).speed

\* C21: with dt clamped to [0, 0.05] s the passive term int(dt * 6) is 0 in
\* every tick: a tick changes the score by 20 for a level-up, by
\* orb.value + (combo - 1) * 5 for each pickup and by 2 for each repel, and by
\* nothing else; a run without level-up, pickup and repel has score 0.
C21_NoPassive ==
    [][/\ AtTick =>
            /\ last'.dt >= 0 /\ last'.dt <= 50
            /\ score' = score + (IF last'.levelled THEN 20 ELSE 0)
                          + PickGain(ComboBefore(last'.dt), last'.picked)
                          + 2 * last'.repelled
       /\ (difficulty_level = 1 /\ collected = {} /\ NeverRepelled) =>
            score = 0]_vars

\* One repel, one pickup and one level-up in 10 s of play, and nothing more.
C21_Witness ==
    /\ state = "playing" /\ time_alive >= 10000 /\ difficulty_level = 2
    /\ Cardinality(collected) = 1 /\ ~NeverRepelled
    /\ score = 47

\* The player's liveness agrees with the screen state.
AliveMatchesState ==
    /\ state \in {"playing", "paused"} => player.alive
    /\ state = "gameover" => ~player.alive
    /\ ~player.alive => state \in {"gameover", "menu"}

\* C22: in playing and paused the player is alive and in gameover it is
\* dead; a dead player is found only in gameover or in the menu reached from
\* gameover; the player dies only in a tick that ends in gameover, and
\* update_playing is never called with a dead player.
C22_Alive ==
    [][/\ AliveMatchesState /\ AliveMatchesState'
       /\ (~player'.alive /\ state' = "menu" /\ state # "menu") =>
            (state = "gameover" /\ ~player.alive)
       /\ (player.alive /\ ~player'.alive) =>
            (AtTick /\ state' = "gameover" /\ last'.lethal)
       /\ AtTick => player.alive]_vars

\* The menu was reached from the game-over screen: its player is dead.
C22_Witness ==
    /\ state = "menu" /\ ~player.alive /\ last.lethal /\ pc = "events"

\* C23: at the end of every update_playing call, and after reset_run,
\* next_difficulty_time is 10 s times difficulty_level, time_alive is below
\* it, difficulty_level is 1 + floor(time_alive / 10 s), so no threshold is
\* skipped or late, and the score is at least 20 * (difficulty_level - 1).
C23_LevelTracksTime ==
    /\ next_difficulty_time = 10000 * difficulty_level
    /\ time_alive < next_difficulty_time
    /\ difficulty_level = 1 + (time_alive \div 10000)
    /\ score >= 20 * (difficulty_level - 1)

\* The second threshold was crossed at exactly 20.0 s.
C23_Witness ==
    /\ last.levelled /\ time_alive = 20000
    /\ difficulty_level = 3 /\ next_difficulty_time = 30000 /\ score = 40

=============================================================================
